---- MODULE Spec2Model ----
(***************************************************************************)
(* State-machine model of the file-flow-converter front end:               *)
(*   - the Excel-pair page        (src/src/pages/Index.tsx)                *)
(*   - the generic upload widget  (src/src/components/FileUpload.tsx)      *)
(*   - the preview component      (src/unnamed/part_000, FilePreview)      *)
(* Strings are TLA+ strings; a character is a string of length 1.          *)
(***************************************************************************)
EXTENDS Integers, Sequences, FiniteSets, TLC

VARIABLES
    candidate,          \* file handed to the validators (pure-function runs)
    verdict,            \* outcomes of the two validators for candidate
    expenseTypeFile,    \* Index.tsx useState, line 11
    transactionsFile,   \* Index.tsx useState, line 12
    isProcessing,       \* Index.tsx useState, line 13
    zipFileUrl,         \* Index.tsx useState, line 14
    zipFileName,        \* Index.tsx useState, line 15
    toastTitle,         \* title of the last toast() call
    inflight,           \* handleSubmit invocations suspended at an await
    posted,             \* number of fetch() calls issued so far
    objectUrls,         \* URLs made by URL.createObjectURL and not revoked
    currentFile,        \* generic flow: the currentFile prop of each FileUpload
    alertMsg,           \* generic flow: text of the last alert()
    file,               \* FilePreview prop
    content,            \* FilePreview useState, line 15
    loading,            \* FilePreview useState, line 16
    error,              \* FilePreview useState, line 17
    readers,            \* FileReaders whose readAsText has not completed
    started,            \* number of FileReaders created so far
    view,               \* what FilePreview rendered last
    header,             \* Content-Disposition value handed to the extractor
    extracted,          \* result of the extractor for header
    csvText,            \* content handed to the CSV renderer (pure-function runs)
    csvTable,           \* the table the CSV renderer made of csvText
    op                  \* the last operation that ran (observation only)

vars == <<candidate, verdict, expenseTypeFile, transactionsFile, isProcessing,
          zipFileUrl, zipFileName, toastTitle, inflight, posted, objectUrls,
          currentFile, alertMsg, file, content, loading, error, readers,
          started, view, header, extracted, csvText, csvTable, op>>

validateVars == <<candidate, verdict>>
indexVars    == <<expenseTypeFile, transactionsFile, isProcessing, zipFileUrl,
                  zipFileName, toastTitle, inflight, posted>>
genericVars  == <<currentFile, alertMsg>>
previewVars  == <<file, content, loading, error, readers, started, view>>
headerVars   == <<header, extracted>>
csvVars      == <<csvText, csvTable>>

-----------------------------------------------------------------------------
(* String helpers (JavaScript String methods used by the source)           *)

Ch(s, i) == SubSeq(s, i, i)

UpperChars == "ABCDEFGHIJKLMNOPQRSTUVWXYZ"
LowerChars == "abcdefghijklmnopqrstuvwxyz"

LowerChar(c) ==
    IF \E i \in 1..Len(UpperChars) : Ch(UpperChars, i) = c
    THEN Ch(LowerChars, CHOOSE i \in 1..Len(UpperChars) : Ch(UpperChars, i) = c)
    ELSE c

RECURSIVE ToLower(_)
ToLower(s) ==
    IF Len(s) = 0 THEN "" ELSE LowerChar(Ch(s, 1)) \o ToLower(SubSeq(s, 2, Len(s)))

\* String.prototype.endsWith
EndsWith(s, suffix) ==
    /\ Len(s) >= Len(suffix)
    /\ SubSeq(s, Len(s) - Len(suffix) + 1, Len(s)) = suffix

\* String.prototype.includes
Includes(s, sub) ==
    \E i \in 1..(Len(s) + 1) :
        /\ i + Len(sub) - 1 <= Len(s)
        /\ SubSeq(s, i, i + Len(sub) - 1) = sub

\* Position of the first occurrence of sub in s at or after from; 0 when none
IndexFrom(s, sub, from) ==
    LET hits == {i \in from..(Len(s) - Len(sub) + 1) :
                    SubSeq(s, i, i + Len(sub) - 1) = sub}
    IN  IF hits = {} THEN 0 ELSE CHOOSE i \in hits : \A j \in hits : i <= j

\* the match without the i flag
MatchesExtension_CaseSensitive(name, exts) ==
    \E e \in exts : EndsWith(name, "." \o e)

\* name.match(/\.(e1|e2|...)$/i) for a list of literal alternatives
MatchesExtension(name, exts) ==
    \E e \in exts : EndsWith(ToLower(name), "." \o e)

-----------------------------------------------------------------------------
(* Files                                                                   *)

MaxFileSize == 10 * 1024 * 1024

MimeCsv   == "text/csv"
MimeXls   == "application/vnd.ms-excel"
MimeXlsx  == "application/vnd.openxmlformats-officedocument.spreadsheetml.sheet"
MimeText  == "text/plain"
MimeJson  == "application/json"

\* File objects the pure validation runs range over
CandidateNames == {"a.csv", "a.xls", "a.xlsx", "a.XLSX", "a.Xls", "a.txt",
                   "a.json", "a.JSON", "a.png", "axls", "a.xls.exe", "a.xlsm",
                   ".xls", "xlsx", ""}
CandidateTypes == {MimeCsv, MimeXls, MimeXlsx, MimeText, MimeJson,
                   "image/png", "application/pdf", ""}
CandidateSizes == {0, 1, MaxFileSize - 1, MaxFileSize, MaxFileSize + 1,
                   2 * MaxFileSize}
Candidates == [name : CandidateNames, type : CandidateTypes, size : CandidateSizes]

\* File objects the user picks in the stateful runs; a slot holds an index
\* into this table (object identity), NoFile stands for null
FileTable ==
    << [name |-> "a.xlsx", type |-> MimeXlsx,    size |-> 1],
       [name |-> "b.XLS",  type |-> "",          size |-> 2 * MaxFileSize],
       [name |-> "c.csv",  type |-> MimeCsv,     size |-> 0],
       [name |-> "d.png",  type |-> "image/png", size |-> 1],
       [name |-> "e.json", type |-> MimeJson,    size |-> 0],
       [name |-> "f.txt",  type |-> MimeXls,     size |-> MaxFileSize + 1],
       [name |-> "g.json", type |-> "",          size |-> 3] >>
FileIds == DOMAIN FileTable
NoFile  == 0

-----------------------------------------------------------------------------
(* Validators                                                              *)

\* Index.tsx handleFileUpload, lines 19-31
ExcelValidTypes == {MimeXls, MimeXlsx}
ExcelExtensions == {"xlsx", "xls"}
ExcelValidate(f) ==
    IF f.type \notin ExcelValidTypes /\ ~MatchesExtension(f.name, ExcelExtensions)
    THEN "bad_type"
    ELSE "accepted"

\* the size test written with >= instead of >
GenericValidate_AtLimit(f) ==
    IF f.size >= MaxFileSize
    THEN "too_large"
    ELSE IF f.type \notin {MimeCsv, MimeXls, MimeXlsx, MimeText, MimeJson}
            /\ ~MatchesExtension(f.name, {"csv", "xlsx", "xls", "txt", "json"})
         THEN "bad_type"
         ELSE "accepted"

\* FileUpload.tsx validateAndUploadFile, lines 49-69
AllowedTypes      == {MimeCsv, MimeXls, MimeXlsx, MimeText, MimeJson}
AllowedExtensions == {"csv", "xlsx", "xls", "txt", "json"}
GenericValidate(f) ==
    IF f.size > MaxFileSize
    THEN "too_large"
    ELSE IF f.type \notin AllowedTypes /\ ~MatchesExtension(f.name, AllowedExtensions)
         THEN "bad_type"
         ELSE "accepted"

\* the verdicts of the files of FileTable
ExcelVerdict   == [f \in FileIds |-> ExcelValidate(FileTable[f])]
GenericVerdict == [f \in FileIds |-> GenericValidate(FileTable[f])]

NoVerdict == [excel |-> "none", generic |-> "none"]

\* One pure-function run: both validators applied to the candidate
Validate ==
    /\ verdict = NoVerdict
    /\ verdict' = [excel |-> ExcelValidate(candidate),
                   generic |-> GenericValidate(candidate)]
    /\ UNCHANGED <<candidate, indexVars, objectUrls, genericVars, previewVars,
                   headerVars, csvVars, op>>

-----------------------------------------------------------------------------
(* Observation of the last operation                                       *)

Observe(name, cat, arg, outcome) ==
    [name |-> name, cat |-> cat, arg |-> arg, outcome |-> outcome]
NoOp == Observe("init", "", 0, "")

-----------------------------------------------------------------------------
(* Content-Disposition file name, Index.tsx line 79                        *)

DefaultZipName == "processed-files.zip"
FilenameKey    == "filename="
NoHeader       == <<>>          \* headers.get(...) returned null

\* s.replace(/"/g, '')
RECURSIVE RemoveQuotes(_)
RemoveQuotes(s) ==
    IF Len(s) = 0 THEN ""
    ELSE (IF Ch(s, 1) = "\"" THEN "" ELSE Ch(s, 1)) \o RemoveQuotes(SubSeq(s, 2, Len(s)))

\* everything after the first occurrence of sep
SplitSecond_Rest(s, sep) ==
    LET first == IndexFrom(s, sep, 1) IN
    IF first = 0 THEN <<>>
    ELSE << SubSeq(s, first + Len(sep), Len(s)) >>

\* s.split(sep)[1]: the text between the first and the second occurrence of
\* sep; <<>> (undefined) when sep does not occur
SplitSecond(s, sep) ==
    LET first == IndexFrom(s, sep, 1) IN
    IF first = 0 THEN <<>>
    ELSE LET from == first + Len(sep)
             next == IndexFrom(s, sep, from)
         IN  << SubSeq(s, from, IF next = 0 THEN Len(s) ELSE next - 1) >>

\* response.headers.get('Content-Disposition')?.split('filename=')[1]
\*     ?.replace(/"/g, '') || 'processed-files.zip'
ContentDispositionFilename(h) ==
    IF h = NoHeader THEN DefaultZipName
    ELSE LET part == SplitSecond(h[1], FilenameKey) IN
         IF part = <<>> THEN DefaultZipName
         ELSE LET name == RemoveQuotes(part[1]) IN
              IF name = "" THEN DefaultZipName ELSE name

NotExtracted == <<>>

\* One pure-function run: the extractor applied to the header
ExtractName ==
    /\ extracted = NotExtracted
    /\ extracted' = << ContentDispositionFilename(header) >>
    /\ UNCHANGED <<header, validateVars, indexVars, objectUrls, genericVars,
                   previewVars, csvVars, op>>

-----------------------------------------------------------------------------
(* Excel-pair page, src/src/pages/Index.tsx                                *)

MaxSubmits == 2         \* cap on the number of fetch() calls in a run

IndexCategories == {"expenseType", "transactions"}
\* the files picked on the Excel-pair page: two Excel files and a CSV file
IndexPicks == {f \in FileIds : FileTable[f].name \in {"a.xlsx", "b.XLS", "c.csv"}}
NoUrl == 0

\* URL.createObjectURL returns a URL distinct from every URL made before;
\* the source never calls URL.revokeObjectURL, so every URL made is still in
\* objectUrls
FreshUrl == Cardinality(objectUrls) + 1

Slot(type) == IF type = "expenseType" THEN expenseTypeFile ELSE transactionsFile

SlotSet(type, f) ==
    /\ expenseTypeFile'  = IF type = "expenseType" THEN f ELSE expenseTypeFile
    /\ transactionsFile' = IF type = "expenseType" THEN transactionsFile ELSE f

\* the slot assigned before the type check
handleFileUpload_StoreFirst(f, type) ==
    /\ SlotSet(type, f)
    /\ toastTitle' = IF ExcelVerdict[f] = "bad_type"
                     THEN "Invalid file type" ELSE "File uploaded"
    /\ op' = Observe("handleFileUpload", type, f, ExcelVerdict[f])
    /\ UNCHANGED <<isProcessing, zipFileUrl, zipFileName, inflight, posted,
                   objectUrls, validateVars, genericVars, previewVars, headerVars, csvVars>>

\* handleFileUpload(file, type), lines 17-43
handleFileUpload(f, type) ==
    /\ IF ExcelVerdict[f] = "bad_type"
       THEN /\ toastTitle' = "Invalid file type"
            /\ UNCHANGED <<expenseTypeFile, transactionsFile>>
       ELSE /\ SlotSet(type, f)
            /\ toastTitle' = "File uploaded"
    /\ op' = Observe("handleFileUpload", type, f, ExcelVerdict[f])
    /\ UNCHANGED <<isProcessing, zipFileUrl, zipFileName, inflight, posted,
                   objectUrls, validateVars, genericVars, previewVars, headerVars, csvVars>>

\* removeFile(type), lines 117-123
removeFile(type) ==
    /\ SlotSet(type, NoFile)
    /\ op' = Observe("removeFile", type, NoFile, "")
    /\ UNCHANGED <<isProcessing, zipFileUrl, zipFileName, toastTitle, inflight,
                   posted, objectUrls, validateVars, genericVars, previewVars,
                   headerVars, csvVars>>

\* the guard written with && instead of ||
handleSubmit_BothMissing ==
    IF expenseTypeFile = NoFile /\ transactionsFile = NoFile
    THEN /\ toastTitle' = "Missing files"
         /\ op' = Observe("handleSubmit", "", 0, "missing")
         /\ UNCHANGED <<expenseTypeFile, transactionsFile, isProcessing,
                        zipFileUrl, zipFileName, inflight, posted, objectUrls,
                        validateVars, genericVars, previewVars, headerVars, csvVars>>
    ELSE /\ posted < MaxSubmits
         /\ isProcessing' = TRUE
         /\ posted' = posted + 1
         /\ inflight' = inflight \cup
                {[id |-> posted + 1, expenseFile |-> expenseTypeFile,
                  file |-> transactionsFile, pc |-> "fetch", hdr |-> NoHeader]}
         /\ op' = Observe("handleSubmit", "", posted + 1, "posted")
         /\ UNCHANGED <<expenseTypeFile, transactionsFile, zipFileUrl,
                        zipFileName, toastTitle, objectUrls, validateVars,
                        genericVars, previewVars, headerVars, csvVars>>

\* handleSubmit up to the first await, lines 45-68
handleSubmit ==
    IF expenseTypeFile = NoFile \/ transactionsFile = NoFile
    THEN /\ toastTitle' = "Missing files"
         /\ op' = Observe("handleSubmit", "", 0, "missing")
         /\ UNCHANGED <<expenseTypeFile, transactionsFile, isProcessing,
                        zipFileUrl, zipFileName, inflight, posted, objectUrls,
                        validateVars, genericVars, previewVars, headerVars, csvVars>>
    ELSE /\ posted < MaxSubmits
         /\ isProcessing' = TRUE
         /\ posted' = posted + 1
         /\ inflight' = inflight \cup
                {[id |-> posted + 1, expenseFile |-> expenseTypeFile,
                  file |-> transactionsFile, pc |-> "fetch", hdr |-> NoHeader]}
         /\ op' = Observe("handleSubmit", "", posted + 1, "posted")
         /\ UNCHANGED <<expenseTypeFile, transactionsFile, zipFileUrl,
                        zipFileName, toastTitle, objectUrls, validateVars,
                        genericVars, previewVars, headerVars, csvVars>>

\* the catch block issuing the request again
SubmitFailed_Retry(r, how) ==
    IF posted < MaxSubmits
    THEN /\ posted' = posted + 1
         /\ inflight' = (inflight \ {r}) \cup
                {[r EXCEPT !.id = posted + 1, !.pc = "fetch", !.hdr = NoHeader]}
         /\ op' = Observe("submitFailed", "", r.id, how)
         /\ UNCHANGED <<expenseTypeFile, transactionsFile, isProcessing,
                        zipFileUrl, zipFileName, toastTitle, objectUrls,
                        validateVars, genericVars, previewVars, headerVars, csvVars>>
    ELSE /\ toastTitle' = "Processing failed"
         /\ isProcessing' = FALSE
         /\ inflight' = inflight \ {r}
         /\ op' = Observe("submitFailed", "", r.id, how)
         /\ UNCHANGED <<expenseTypeFile, transactionsFile, zipFileUrl,
                        zipFileName, posted, objectUrls, validateVars,
                        genericVars, previewVars, headerVars, csvVars>>

\* catch and finally blocks, lines 89-98
SubmitFailed(r, how) ==
    /\ toastTitle' = "Processing failed"
    /\ isProcessing' = FALSE
    /\ inflight' = inflight \ {r}
    /\ op' = Observe("submitFailed", "", r.id, how)
    /\ UNCHANGED <<expenseTypeFile, transactionsFile, zipFileUrl, zipFileName,
                   posted, objectUrls, validateVars, genericVars, previewVars,
                   headerVars, csvVars>>

\* Content-Disposition values the server answers with in the stateful runs
ResponseHeaders ==
    {NoHeader, <<"attachment; filename=\"result.zip\"">>, <<"attachment">>}

ResponseName == [h \in ResponseHeaders |-> ContentDispositionFilename(h)]

\* await fetch(...) resolves, lines 65-72
FetchResolved(r, ok, h) ==
    /\ r \in inflight /\ r.pc = "fetch"
    /\ IF ~ok
       THEN SubmitFailed(r, "status")
       ELSE /\ inflight' = (inflight \ {r}) \cup {[r EXCEPT !.pc = "blob", !.hdr = h]}
            /\ op' = Observe("fetchResolved", "", r.id, "ok")
            /\ UNCHANGED <<expenseTypeFile, transactionsFile, isProcessing,
                           zipFileUrl, zipFileName, toastTitle, posted,
                           objectUrls, validateVars, genericVars, previewVars,
                           headerVars, csvVars>>

\* await fetch(...) rejects (network failure), lines 65, 89-98
FetchRejected(r) ==
    /\ r \in inflight /\ r.pc = "fetch"
    /\ SubmitFailed(r, "network")

\* await response.blob() resolves, lines 75-98
BlobResolved(r) ==
    /\ r \in inflight /\ r.pc = "blob"
    /\ objectUrls' = objectUrls \cup {FreshUrl}
    /\ zipFileUrl' = FreshUrl
    /\ zipFileName' = ResponseName[r.hdr]
    /\ toastTitle' = "Files processed successfully"
    /\ isProcessing' = FALSE
    /\ inflight' = inflight \ {r}
    /\ op' = Observe("blobResolved", "", r.id, "ok")
    /\ UNCHANGED <<expenseTypeFile, transactionsFile, posted, validateVars,
                   genericVars, previewVars, headerVars, csvVars>>

\* await response.blob() rejects (body stream failure), lines 75, 89-98
BlobRejected(r) ==
    /\ r \in inflight /\ r.pc = "blob"
    /\ SubmitFailed(r, "body")

\* handleDownload, lines 101-115
handleDownload ==
    /\ IF zipFileUrl = NoUrl
       THEN /\ op' = Observe("handleDownload", "", NoUrl, "none")
            /\ UNCHANGED toastTitle
       ELSE /\ op' = Observe("handleDownload", "", zipFileUrl, "clicked")
            /\ toastTitle' = "Download started"
    /\ UNCHANGED <<expenseTypeFile, transactionsFile, isProcessing, zipFileUrl,
                   zipFileName, inflight, posted, objectUrls, validateVars,
                   genericVars, previewVars, headerVars, csvVars>>

-----------------------------------------------------------------------------
(* Generic upload widget, src/src/components/FileUpload.tsx                *)

FileTypes == {"transaction", "expense"}

\* The onFileUpload prop: the owner of the slot stores the accepted file
onFileUpload(fileType, f) ==
    currentFile' = [currentFile EXCEPT ![fileType] = f]

\* validateAndUploadFile(file) of the widget whose fileType is given, lines 46-70
validateAndUploadFile(fileType, f) ==
    /\ CASE GenericVerdict[f] = "too_large" ->
                /\ alertMsg' = "File size must be less than 10MB"
                /\ UNCHANGED currentFile
         [] GenericVerdict[f] = "bad_type" ->
                /\ alertMsg' = "Please upload a valid file format (CSV, Excel, TXT, or JSON)"
                /\ UNCHANGED currentFile
         [] OTHER ->
                /\ onFileUpload(fileType, f)
                /\ UNCHANGED alertMsg
    /\ op' = Observe("validateAndUploadFile", fileType, f, GenericVerdict[f])
    /\ UNCHANGED <<validateVars, indexVars, objectUrls, previewVars, headerVars, csvVars>>

\* removeFile() of the widget whose fileType is given, lines 72-75: logs only
widgetRemoveFile(fileType) ==
    /\ op' = Observe("widgetRemoveFile", fileType, NoFile, "")
    /\ UNCHANGED <<validateVars, indexVars, objectUrls, genericVars,
                   previewVars, headerVars, csvVars>>

-----------------------------------------------------------------------------
(* JSON.parse and JSON.stringify(value, null, 2), part_000 lines 33-34.    *)
(* Texts are over JsonAlphabet: whitespace, digits, brackets, braces and   *)
(* commas; a text with any other character is not JSON here, which is      *)
(* exact as long as the character cannot start a string or a literal.      *)

JsonWhitespace == {" ", "\n", "\t", "\r"}
JsonDigits     == {"0", "1", "2", "3", "4", "5", "6", "7", "8", "9"}

JsonFail == [ok |-> FALSE, next |-> 0, val |-> [t |-> "none", s |-> "", items |-> <<>>]]
JsonOk(next, val) == [ok |-> TRUE, next |-> next, val |-> val]
JsonNum(s)      == [t |-> "num", s |-> s, items |-> <<>>]
JsonArr(items)  == [t |-> "arr", s |-> "", items |-> items]
JsonObj         == [t |-> "obj", s |-> "", items |-> <<>>]

RECURSIVE SkipWs(_, _)
SkipWs(s, i) ==
    IF i <= Len(s) /\ Ch(s, i) \in JsonWhitespace THEN SkipWs(s, i + 1) ELSE i

RECURSIVE DigitsEnd(_, _)
DigitsEnd(s, i) ==
    IF i <= Len(s) /\ Ch(s, i) \in JsonDigits THEN DigitsEnd(s, i + 1) ELSE i

RECURSIVE ParseValue(_, _)
RECURSIVE ParseElements(_, _, _)

\* the elements of an array after "[" or ",": value (ws "," value)* ws "]"
ParseElements(s, i, acc) ==
    LET r == ParseValue(s, i) IN
    IF ~r.ok THEN JsonFail
    ELSE LET k == SkipWs(s, r.next) IN
         IF k > Len(s) THEN JsonFail
         ELSE IF Ch(s, k) = "," THEN ParseElements(s, k + 1, Append(acc, r.val))
         ELSE IF Ch(s, k) = "]" THEN JsonOk(k + 1, JsonArr(Append(acc, r.val)))
         ELSE JsonFail

ParseValue(s, i) ==
    LET j == SkipWs(s, i) IN
    IF j > Len(s) THEN JsonFail
    ELSE IF Ch(s, j) = "[" THEN
            LET k == SkipWs(s, j + 1) IN
            IF k <= Len(s) /\ Ch(s, k) = "]"
            THEN JsonOk(k + 1, JsonArr(<<>>))
            ELSE ParseElements(s, j + 1, <<>>)
    ELSE IF Ch(s, j) = "{" THEN
            LET k == SkipWs(s, j + 1) IN
            IF k <= Len(s) /\ Ch(s, k) = "}" THEN JsonOk(k + 1, JsonObj) ELSE JsonFail
    ELSE IF Ch(s, j) \in JsonDigits THEN
            LET e == DigitsEnd(s, j) IN
            IF Ch(s, j) = "0" /\ e > j + 1 THEN JsonFail   \* no leading zero
            ELSE JsonOk(e, JsonNum(SubSeq(s, j, e - 1)))
    ELSE JsonFail

\* JSON.parse(text): fails (throws SyntaxError) unless the whole text is one value
JSONParse(s) ==
    LET r == ParseValue(s, 1) IN
    IF r.ok /\ SkipWs(s, r.next) > Len(s) THEN r ELSE JsonFail

RECURSIVE Spaces(_)
Spaces(n) == IF n = 0 THEN "" ELSE " " \o Spaces(n - 1)

RECURSIVE JSONStringify(_, _)
RECURSIVE StringifyItems(_, _, _)
StringifyItems(items, i, indent) ==
    IF i > Len(items) THEN ""
    ELSE Spaces(indent) \o JSONStringify(items[i], indent)
         \o (IF i < Len(items) THEN ",\n" ELSE "\n")
         \o StringifyItems(items, i + 1, indent)

\* JSON.stringify(value, null, 2) of a value nested at the given indentation
JSONStringify(v, indent) ==
    IF v.t = "num" THEN v.s
    ELSE IF v.t = "obj" THEN "{}"
    ELSE IF Len(v.items) = 0 THEN "[]"
    ELSE "[\n" \o StringifyItems(v.items, 1, indent + 2) \o Spaces(indent) \o "]"

-----------------------------------------------------------------------------
(* Preview component, src/unnamed/part_000 (FilePreview)                   *)

MaxReads == 3           \* cap on the number of FileReaders created in a run
MaxUrls  == 3           \* cap on the number of object URLs made in a run

NoError == ""           \* the error state is null

\* Texts a read can deliver
Contents == {"", "1", "{", "a", "[1]", "{ }", "{1}", "a,b", "[1, [2]]"}
MaxContentLen == CHOOSE n \in {Len(c) : c \in Contents} : \A c \in Contents : Len(c) <= n

\* What readAsText(file) can deliver: the decoded bytes of the file.  Files
\* larger than the sample texts are represented by the non-empty samples.
ReadContents(f) ==
    IF FileTable[f].size <= MaxContentLen
    THEN {c \in Contents : Len(c) = FileTable[f].size}
    ELSE Contents \ {""}

PreviewRows == 10
NoTable == [header |-> <<>>, rows |-> <<>>, footer |-> <<>>]

TruncateAt == 5000
TruncationMarker == "\n\n... (content truncated)"

NullView == [kind |-> "null", text |-> "", url |-> NoUrl, table |-> NoTable]

\* file.type.includes('image'), line 89
IsImage == [f \in FileIds |-> Includes(FileTable[f].type, "image")]
\* file.name.endsWith('.csv') || file.type === 'text/csv', line 99
IsCsv == [f \in FileIds |->
            EndsWith(FileTable[f].name, ".csv") \/ FileTable[f].type = MimeCsv]
\* file.type === 'application/json' || file.name.endsWith('.json'), line 31
IsJson == [f \in FileIds |->
            FileTable[f].type = MimeJson \/ EndsWith(FileTable[f].name, ".json")]
\* JSON.parse of each text a read can deliver, and its pretty-printed form
Parsed == [c \in Contents |-> JSONParse(c)]
Pretty == [c \in Contents |->
            IF Parsed[c].ok THEN JSONStringify(Parsed[c].val, 0) ELSE ""]

\* String.prototype.trim: white space and line terminators
WhitespaceChars == {" ", "\t", "\n", "\r"}
RECURSIVE TrimStart(_)
TrimStart(s) ==
    IF Len(s) > 0 /\ Ch(s, 1) \in WhitespaceChars
    THEN TrimStart(SubSeq(s, 2, Len(s))) ELSE s
RECURSIVE TrimEnd(_)
TrimEnd(s) ==
    IF Len(s) > 0 /\ Ch(s, Len(s)) \in WhitespaceChars
    THEN TrimEnd(SubSeq(s, 1, Len(s) - 1)) ELSE s
Trim(s) == TrimEnd(TrimStart(s))

\* String.prototype.split(sep) for a non-empty separator
RECURSIVE SplitOn(_, _)
SplitOn(s, sep) ==
    LET i == IndexFrom(s, sep, 1) IN
    IF i = 0 THEN <<s>>
    ELSE <<SubSeq(s, 1, i - 1)>> \o SplitOn(SubSeq(s, i + Len(sep), Len(s)), sep)

\* Array.prototype.slice(from, to) with 0 <= from <= to
Slice(seq, from, to) ==
    SubSeq(seq, from + 1, IF to < Len(seq) THEN to ELSE Len(seq))

\* the footer shown from the 11th line on
CsvTable_FooterAtTen(c) ==
    LET all   == SplitOn(c, "\n")
        lines == Slice(all, 0, PreviewRows)
        rows  == [i \in 1..Len(lines) |-> SplitOn(lines[i], ",")]
    IN  [header |-> [j \in 1..Len(rows[1]) |-> Trim(rows[1][j])],
         rows   |-> [i \in 1..(Len(rows) - 1) |->
                        [j \in 1..Len(rows[i + 1]) |-> Trim(rows[i + 1][j])]],
         footer |-> IF Len(all) >= PreviewRows
                    THEN << "Showing first 10 rows of " \o ToString(Len(all))
                            \o " total rows" >>
                    ELSE <<>>]

\* the table of renderContent, lines 100-134: rows is never empty, since
\* split returns at least one element
CsvTable(c) ==
    LET all   == SplitOn(c, "\n")
        lines == Slice(all, 0, PreviewRows)
        rows  == [i \in 1..Len(lines) |-> SplitOn(lines[i], ",")]
    IN  [header |-> [j \in 1..Len(rows[1]) |-> Trim(rows[1][j])],
         rows   |-> [i \in 1..(Len(rows) - 1) |->
                        [j \in 1..Len(rows[i + 1]) |-> Trim(rows[i + 1][j])]],
         footer |-> IF Len(all) > PreviewRows
                    THEN << "Showing first 10 rows of " \o ToString(Len(all))
                            \o " total rows" >>
                    ELSE <<>>]

\* the texts the content state can hold in the stateful runs, and their tables
ShownTexts == Contents \cup {Pretty[c] : c \in Contents}
TableOf == [c \in ShownTexts |-> CsvTable(c)]

\* One pure-function run: the CSV renderer applied to the text
RenderCsv ==
    /\ csvTable = NoTable
    /\ csvTable' = CsvTable(csvText)
    /\ UNCHANGED <<csvText, validateVars, indexVars, objectUrls, genericVars,
                   previewVars, headerVars, op>>

\* renderContent() creates an object URL, lines 89-90
RenderMakesUrl(f, l, e) ==
    /\ f # NoFile /\ ~l /\ e = NoError
    /\ IsImage[f]

\* the component's output, lines 54 and 70-145
Render(f, c, l, e, url) ==
    IF f = NoFile THEN NullView
    ELSE IF l THEN [kind |-> "loading", text |-> "", url |-> NoUrl, table |-> NoTable]
    ELSE IF e # NoError
         THEN [kind |-> "error", text |-> e, url |-> NoUrl, table |-> NoTable]
    ELSE IF IsImage[f]
         THEN [kind |-> "image", text |-> "", url |-> url, table |-> NoTable]
    ELSE IF IsCsv[f]
         THEN [kind |-> "csv", text |-> c, url |-> NoUrl, table |-> TableOf[c]]
    ELSE [kind |-> "pre",
          text |-> IF Len(c) > TruncateAt
                   THEN SubSeq(c, 1, TruncateAt) \o TruncationMarker ELSE c,
          url |-> NoUrl, table |-> NoTable]

\* the parent passes another file (or null): render, then the effect of
\* lines 19-52 runs and the component renders again
SetFile(f) ==
    /\ f # file
    /\ file' = f
    /\ IF f = NoFile
       THEN /\ view' = NullView
            /\ op' = Observe("SetFile", "", f, "closed")
            /\ UNCHANGED <<content, loading, error, readers, started, objectUrls>>
       ELSE /\ started < MaxReads
            /\ RenderMakesUrl(f, loading, error) => Cardinality(objectUrls) < MaxUrls
            /\ objectUrls' = IF RenderMakesUrl(f, loading, error)
                             THEN objectUrls \cup {FreshUrl} ELSE objectUrls
            /\ loading' = TRUE
            /\ error' = NoError
            /\ started' = started + 1
            /\ readers' = readers \cup {[id |-> started + 1, file |-> f]}
            /\ view' = Render(f, content, TRUE, NoError, NoUrl)
            /\ op' = Observe("SetFile", "", f, "reading")
            /\ UNCHANGED content
    /\ UNCHANGED <<validateVars, indexVars, genericVars, headerVars, csvVars>>

ParseErrorMsg ==
    "Failed to read file content. The file might be corrupted or in an unsupported format."
ReadErrorMsg == "Error reading file"

\* what reader.onload leaves in <<content, error>>, lines 29-43
OnLoadResult(f, result) ==
    IF IsJson[f]
    THEN IF Parsed[result].ok
         THEN [content |-> Pretty[result], error |-> error]
         ELSE [content |-> content, error |-> ParseErrorMsg]
    ELSE [content |-> result, error |-> error]

\* the state changed by a completion is rendered with the current file prop
Rendered(c, l, e) ==
    /\ RenderMakesUrl(file, l, e) => Cardinality(objectUrls) < MaxUrls
    /\ objectUrls' = IF RenderMakesUrl(file, l, e)
                     THEN objectUrls \cup {FreshUrl} ELSE objectUrls
    /\ view' = Render(file, c, l, e, FreshUrl)

\* reader.onload of reader r, lines 28-44
OnLoad(r, result) ==
    /\ r \in readers
    /\ result \in ReadContents(r.file)
    /\ content' = OnLoadResult(r.file, result).content
    /\ error' = OnLoadResult(r.file, result).error
    /\ loading' = FALSE
    /\ readers' = readers \ {r}
    /\ Rendered(content', FALSE, error')
    /\ op' = Observe("OnLoad", result, r.file,
                     IF error' = error THEN "content" ELSE "parse_error")
    /\ UNCHANGED <<file, started, validateVars, indexVars, genericVars, headerVars, csvVars>>

\* reader.onerror of reader r, lines 46-49
OnError(r) ==
    /\ r \in readers
    /\ error' = ReadErrorMsg
    /\ loading' = FALSE
    /\ readers' = readers \ {r}
    /\ Rendered(content, FALSE, ReadErrorMsg)
    /\ op' = Observe("OnError", "", r.file, "read_error")
    /\ UNCHANGED <<file, content, started, validateVars, indexVars, genericVars,
                   headerVars, csvVars>>

\* the parent renders again without changing the file prop
Rerender ==
    /\ file # NoFile
    /\ Rendered(content, loading, error)
    /\ op' = Observe("Rerender", "", file, "")
    /\ UNCHANGED <<file, content, loading, error, readers, started, validateVars,
                   indexVars, genericVars, headerVars, csvVars>>

-----------------------------------------------------------------------------
(* Specifications                                                          *)

DefaultCandidate == [name |-> "", type |-> "", size |-> 0]

InitIndex ==
    /\ expenseTypeFile = NoFile
    /\ transactionsFile = NoFile
    /\ isProcessing = FALSE
    /\ zipFileUrl = NoUrl
    /\ zipFileName = ""
    /\ toastTitle = ""
    /\ inflight = {}
    /\ posted = 0
    /\ objectUrls = {}

InitGeneric ==
    /\ currentFile = [t \in FileTypes |-> NoFile]
    /\ alertMsg = ""

InitPreview ==
    /\ file = NoFile
    /\ content = ""
    /\ loading = TRUE
    /\ error = NoError
    /\ readers = {}
    /\ started = 0
    /\ view = NullView

Init ==
    /\ candidate = DefaultCandidate /\ verdict = NoVerdict
    /\ InitIndex /\ InitGeneric /\ InitPreview
    /\ header = NoHeader /\ extracted = NotExtracted
    /\ csvText = "" /\ csvTable = NoTable
    /\ op = NoOp

\* The controls the Excel-pair page renders, lines 125-271
CanPick(type)   == Slot(type) = NoFile      \* the file input, lines 151/166, 189/204
CanRemove(type) == Slot(type) # NoFile      \* the Remove button, lines 151-165, 189-203
SubmitEnabled ==                            \* the submit button, line 227
    ~(expenseTypeFile = NoFile \/ transactionsFile = NoFile \/ isProcessing)
CanDownload == zipFileUrl # NoUrl           \* the download card, line 247

\* The Excel-pair page as the user drives it: a handler runs when the control
\* it is bound to is rendered and enabled; completions arrive at any time
Next ==
    \/ \E f \in IndexPicks, type \in IndexCategories :
            CanPick(type) /\ handleFileUpload(f, type)
    \/ \E type \in IndexCategories : CanRemove(type) /\ removeFile(type)
    \/ SubmitEnabled /\ handleSubmit
    \/ \E r \in inflight, ok \in BOOLEAN, h \in ResponseHeaders : FetchResolved(r, ok, h)
    \/ \E r \in inflight : FetchRejected(r)
    \/ \E r \in inflight : BlobResolved(r)
    \/ \E r \in inflight : BlobRejected(r)
    \/ CanDownload /\ handleDownload

Spec == Init /\ [][Next]_vars

\* A pending promise of handleSubmit settles: the fetch or the body read is
\* answered or fails, and the event loop runs the continuation
Settle ==
    \E r \in inflight :
        \/ \E ok \in BOOLEAN, h \in ResponseHeaders : FetchResolved(r, ok, h)
        \/ FetchRejected(r)
        \/ BlobResolved(r)
        \/ BlobRejected(r)

\* The page with every pending promise settling eventually
SpecFair == Init /\ [][Next]_vars /\ WF_vars(Settle)

\* The handlers of the Excel-pair page, each run in any state
NextHandlers ==
    \/ \E f \in IndexPicks, type \in IndexCategories : handleFileUpload(f, type)
    \/ \E type \in IndexCategories : removeFile(type)
    \/ handleSubmit
    \/ \E r \in inflight, ok \in BOOLEAN, h \in ResponseHeaders : FetchResolved(r, ok, h)
    \/ \E r \in inflight : FetchRejected(r)
    \/ \E r \in inflight : BlobResolved(r)
    \/ \E r \in inflight : BlobRejected(r)
    \/ handleDownload

SpecHandlers == Init /\ [][NextHandlers]_vars

\* The upload and remove operations of both flows
NextUpload ==
    \/ \E f \in FileIds, type \in IndexCategories : handleFileUpload(f, type)
    \/ \E type \in IndexCategories : removeFile(type)
    \/ \E f \in FileIds, t \in FileTypes : validateAndUploadFile(t, f)
    \/ \E t \in FileTypes : widgetRemoveFile(t)

SpecUpload == Init /\ [][NextUpload]_vars

\* The preview component
NextPreview ==
    \/ \E f \in FileIds \cup {NoFile} : SetFile(f)
    \/ \E r \in readers, result \in Contents : OnLoad(r, result)
    \/ \E r \in readers : OnError(r)
    \/ Rerender

SpecPreview == Init /\ [][NextPreview]_vars

\* The validators as pure functions of the file
InitValidate ==
    /\ candidate \in Candidates /\ verdict = NoVerdict
    /\ InitIndex /\ InitGeneric /\ InitPreview
    /\ header = NoHeader /\ extracted = NotExtracted
    /\ csvText = "" /\ csvTable = NoTable
    /\ op = NoOp

SpecValidate == InitValidate /\ [][Validate]_vars

\* The file-name extractor as a pure function of the header
HeaderPrefixes == {"", "attachment; ", "attachment; filename=x.zip; "}
HeaderKeys     == {"filename=", "Filename=", "name=", "filename*="}
HeaderValues   == {"", "result.zip", "\"result.zip\"", "\"a\"b.zip\"", "\"\"", "\""}
HeaderSuffixes == {"", "; size=1", "; filename=\"b.zip\""}
AllHeaders ==
    {NoHeader} \cup
    { <<p \o k \o v \o x>> : p \in HeaderPrefixes, k \in HeaderKeys,
                              v \in HeaderValues, x \in HeaderSuffixes }

InitName ==
    /\ candidate = DefaultCandidate /\ verdict = NoVerdict
    /\ InitIndex /\ InitGeneric /\ InitPreview
    /\ header \in AllHeaders /\ extracted = NotExtracted
    /\ csvText = "" /\ csvTable = NoTable
    /\ op = NoOp

SpecName == InitName /\ [][ExtractName]_vars

\* The CSV renderer as a pure function of the content
MaxCsvLines == 15       \* the longest text has this many lines
CsvLineSamples == {"a", " a , b ", "a,b,c", "", "x ,\ty\r"}
RECURSIVE MoreLines(_, _)
MoreLines(line, k) == IF k = 0 THEN "" ELSE "\n" \o line \o MoreLines(line, k - 1)
CsvTexts ==
    { h \o MoreLines(b, k) \o e :
        h \in CsvLineSamples, b \in CsvLineSamples,
        k \in 0..(MaxCsvLines - 1), e \in {"", "\n"} }

InitCsv ==
    /\ candidate = DefaultCandidate /\ verdict = NoVerdict
    /\ InitIndex /\ InitGeneric /\ InitPreview
    /\ header = NoHeader /\ extracted = NotExtracted
    /\ csvText \in CsvTexts /\ csvTable = NoTable
    /\ op = NoOp

SpecCsv == InitCsv /\ [][RenderCsv]_vars

-----------------------------------------------------------------------------
(* Properties                                                              *)

SlotAfter(type) == IF type = "expenseType" THEN expenseTypeFile' ELSE transactionsFile'

\* C1: when the file prop has moved on to another file than the one a reader
\* was started for, the completion of that reader (onload or onerror) leaves content,
\* loading and error as they were.
C1_StaleReadDiscarded ==
    [][ \A r \in readers :
            (r \notin readers' /\ file # NoFile /\ r.file # file)
                => UNCHANGED <<content, loading, error>> ]_vars

\* C2: a submission completes into zipFileUrl / zipFileName only when the
\* files it was sent with are still the files held in the two slots.
C2_StaleResponseIgnored ==
    [][ (zipFileUrl' # zipFileUrl \/ zipFileName' # zipFileName)
            => \E r \in inflight :
                   /\ r \notin inflight'
                   /\ r.expenseFile = expenseTypeFile
                   /\ r.file = transactionsFile ]_vars

\* C3: handleSubmit run with an empty slot ends in the "Missing files"
\* toast, issues no request and leaves isProcessing and the download
\* reference unchanged.
C3_MissingFilesNoRequest ==
    [][ (op'.name = "handleSubmit"
            /\ (expenseTypeFile = NoFile \/ transactionsFile = NoFile))
            => /\ toastTitle' = "Missing files"
               /\ posted' = posted
               /\ inflight' = inflight
               /\ isProcessing' = isProcessing
               /\ zipFileUrl' = zipFileUrl
               /\ zipFileName' = zipFileName ]_vars

\* a submit with only the expense-type slot filled, while an earlier
\* submission is still being processed
C3_Witness ==
    /\ op.name = "handleSubmit" /\ op.outcome = "missing"
    /\ expenseTypeFile # NoFile /\ transactionsFile = NoFile
    /\ toastTitle = "Missing files"
    /\ isProcessing /\ inflight # {}

\* C4: a rejected upload changes no slot; an accepted upload puts the file
\* in the target slot and changes no other slot (both flows).
C4_UploadFrame ==
    [][ /\ (op'.name = "handleFileUpload" /\ op'.outcome # "accepted")
            => UNCHANGED <<expenseTypeFile, transactionsFile, currentFile>>
        /\ (op'.name = "handleFileUpload" /\ op'.outcome = "accepted")
            => /\ SlotAfter(op'.cat) = op'.arg
               /\ \A t \in IndexCategories \ {op'.cat} : SlotAfter(t) = Slot(t)
               /\ UNCHANGED currentFile
        /\ (op'.name = "validateAndUploadFile" /\ op'.outcome # "accepted")
            => UNCHANGED <<expenseTypeFile, transactionsFile, currentFile>>
        /\ (op'.name = "validateAndUploadFile" /\ op'.outcome = "accepted")
            => /\ currentFile'[op'.cat] = op'.arg
               /\ \A t \in FileTypes \ {op'.cat} : currentFile'[t] = currentFile[t]
               /\ UNCHANGED <<expenseTypeFile, transactionsFile>> ]_vars

\* a rejected upload aimed at a slot that holds a file, with the other
\* slots of both flows populated
C4_Witness ==
    /\ op.name = "handleFileUpload" /\ op.outcome = "bad_type"
    /\ Slot(op.cat) # NoFile /\ Slot(op.cat) # op.arg
    /\ \A t \in IndexCategories : Slot(t) # NoFile
    /\ \E t \in FileTypes : currentFile[t] # NoFile

\* The allow-lists as the specification words them
ListedExtensions(flow) ==
    IF flow = "excel" THEN {"xls", "xlsx"} ELSE {"csv", "xls", "xlsx", "txt", "json"}
ListedMimes(flow) ==
    IF flow = "excel"
    THEN {"application/vnd.ms-excel",
          "application/vnd.openxmlformats-officedocument.spreadsheetml.sheet"}
    ELSE {"text/csv", "application/vnd.ms-excel",
          "application/vnd.openxmlformats-officedocument.spreadsheetml.sheet",
          "text/plain", "application/json"}

\* the extension of a name: the text after its last dot, in lower case
DotPositions(name) == {i \in 1..Len(name) : Ch(name, i) = "."}
HasListedExtension(name, flow) ==
    /\ DotPositions(name) # {}
    /\ LET last == CHOOSE i \in DotPositions(name) : \A j \in DotPositions(name) : j <= i
       IN  ToLower(SubSeq(name, last + 1, Len(name))) \in ListedExtensions(flow)
MeetsTypeRule(f, flow) ==
    f.type \in ListedMimes(flow) \/ HasListedExtension(f.name, flow)

\* C5 as stated: in both flows the verdict is Accepted when the MIME type or
\* the extension is on the flow's allow-list and Rejected(bad_type) otherwise.
C5_TypeRuleAnySize ==
    verdict # NoVerdict =>
        /\ verdict.excel =
              (IF MeetsTypeRule(candidate, "excel") THEN "accepted" ELSE "bad_type")
        /\ verdict.generic =
              (IF MeetsTypeRule(candidate, "generic") THEN "accepted" ELSE "bad_type")

\* C5 amended: the type rule decides the verdict of the Excel-pair flow for
\* every file, and of the generic flow for every file of at most 10 MiB.
C5_TypeRule ==
    verdict # NoVerdict =>
        /\ verdict.excel =
              (IF MeetsTypeRule(candidate, "excel") THEN "accepted" ELSE "bad_type")
        /\ candidate.size <= 10485760 =>
              verdict.generic =
                (IF MeetsTypeRule(candidate, "generic") THEN "accepted" ELSE "bad_type")

\* a file accepted in both flows on its upper-case extension alone
C5_Witness ==
    /\ candidate.name = "a.XLSX" /\ candidate.type = "" /\ candidate.size = 1
    /\ verdict.excel = "accepted" /\ verdict.generic = "accepted"

\* C6: the generic flow answers Rejected(too_large) exactly for the files
\* larger than 10 MiB, whatever their type and name; the verdict of the
\* Excel-pair flow is never too_large and does not depend on the size.
C6_SizeRule ==
    verdict # NoVerdict =>
        /\ candidate.size > 10485760 => verdict.generic = "too_large"
        /\ candidate.size <= 10485760 => verdict.generic # "too_large"
        /\ verdict.excel # "too_large"
        /\ \A n \in CandidateSizes :
              ExcelValidate([candidate EXCEPT !.size = n]) = verdict.excel

\* a file of an allowed type, one byte over the limit: too_large in the
\* generic flow, accepted in the Excel-pair flow
C6_Witness ==
    /\ candidate.size = 10485761 /\ candidate.type = "application/vnd.ms-excel"
    /\ verdict.generic = "too_large" /\ verdict.excel = "accepted"

\* C7: every object URL that was made and not revoked is one that is
\* currently displayed (the download reference or the previewed image).
C7_NoLeakedUrls ==
    objectUrls \subseteq ({zipFileUrl, view.url} \ {NoUrl})

\* C8: the first preview of an empty file of an allowed kind: the file passes
\* validation and its onload ends in the ready state with empty content.
C8_EmptyFileReady ==
    (/\ op.name = "OnLoad" /\ started = 1
     /\ FileTable[op.arg].size = 0
     /\ HasListedExtension(FileTable[op.arg].name, "generic"))
        => /\ GenericVerdict[op.arg] = "accepted"
           /\ ~loading /\ error = NoError /\ content = ""
           /\ view.kind \notin {"loading", "error"} /\ view.text = ""

\* The file name as the specification words it: the text after the first
\* filename=, without a leading and a trailing quote; the default when the
\* header is absent, has no filename= or the name is empty
StripSurroundingQuotes(s) ==
    LET a == IF Len(s) > 0 /\ Ch(s, 1) = "\"" THEN 2 ELSE 1
        b == IF Len(s) >= a /\ Ch(s, Len(s)) = "\"" THEN Len(s) - 1 ELSE Len(s)
    IN  SubSeq(s, a, b)
KeyPositions(s) ==
    {i \in 1..Len(s) : i + 8 <= Len(s) /\ SubSeq(s, i, i + 8) = "filename="}
FirstKey(s) == CHOOSE i \in KeyPositions(s) : \A j \in KeyPositions(s) : i <= j
StatedName(h) ==
    IF h = <<>> \/ KeyPositions(h[1]) = {} THEN "processed-files.zip"
    ELSE LET name == StripSurroundingQuotes(SubSeq(h[1], FirstKey(h[1]) + 9, Len(h[1])))
         IN  IF name = "" THEN "processed-files.zip" ELSE name

\* C9 as stated: the exposed name is the text after filename= with the
\* surrounding quotes stripped, or the default.
C9_NameAfterKey ==
    extracted # NotExtracted => extracted[1] = StatedName(header)

\* The segment the name is taken from: after the first filename= and up to
\* the next filename=, if there is one
Segment(s) ==
    LET from  == FirstKey(s) + 9
        later == {i \in KeyPositions(s) : i >= from}
    IN  IF later = {} THEN SubSeq(s, from, Len(s))
        ELSE SubSeq(s, from, (CHOOSE i \in later : \A j \in later : i <= j) - 1)
\* t is s without its double quotes
IsWithoutQuotes(t, s) ==
    LET keep == {i \in 1..Len(s) : Ch(s, i) # "\""} IN
    /\ Len(t) = Cardinality(keep)
    /\ \A i \in keep : Ch(t, Cardinality({j \in keep : j <= i})) = Ch(s, i)

\* C9 amended: the exposed name is the text between the first filename= and
\* the next filename= (or the end of the header) with every double quote
\* removed; it is the default when the header is absent, has no filename=,
\* or that text has no character other than quotes.
C9_DownloadName ==
    extracted # NotExtracted =>
        IF header = <<>> \/ KeyPositions(header[1]) = {}
        THEN extracted[1] = "processed-files.zip"
        ELSE IF \A i \in 1..Len(Segment(header[1])) : Ch(Segment(header[1]), i) = "\""
        THEN extracted[1] = "processed-files.zip"
        ELSE IsWithoutQuotes(extracted[1], Segment(header[1]))

\* the header of the specification's scenario
C9_Witness ==
    /\ header = <<"attachment; filename=\"result.zip\"">>
    /\ extracted = <<"result.zip">>

\* C10: after remove(category), in either flow, the slot of that category
\* holds no file.
C10_RemoveClearsSlot ==
    /\ op.name = "removeFile" => Slot(op.cat) = NoFile
    /\ op.name = "widgetRemoveFile" => currentFile[op.cat] = NoFile

\* The line count and the header fields as the specification words them
NewlineCount(s) == Cardinality({i \in 1..Len(s) : Ch(s, i) = "\n"})
LineCount(s) == NewlineCount(s) + 1
FirstLine(s) ==
    LET ends == {i \in 1..Len(s) : Ch(s, i) = "\n"} IN
    IF ends = {} THEN s
    ELSE SubSeq(s, 1, (CHOOSE i \in ends : \A j \in ends : i <= j) - 1)
FieldCount(line) == Cardinality({i \in 1..Len(line) : Ch(line, i) = ","}) + 1
IsTrimmed(cell) ==
    Len(cell) = 0 \/ (/\ Ch(cell, 1) \notin {" ", "\t", "\r", "\n"}
                      /\ Ch(cell, Len(cell)) \notin {" ", "\t", "\r", "\n"})

\* C11: for a content of n lines the table has one header cell per
\* comma-separated field of line 0 and min(n, 10) - 1 data rows, every cell
\* is trimmed, and the footer appears exactly when n > 10 and states n.
C11_CsvTable ==
    csvTable # NoTable =>
        LET n == LineCount(csvText) IN
        /\ Len(csvTable.header) = FieldCount(FirstLine(csvText))
        /\ Len(csvTable.rows) = (IF n < 10 THEN n ELSE 10) - 1
        /\ \A j \in 1..Len(csvTable.header) : IsTrimmed(csvTable.header[j])
        /\ \A i \in 1..Len(csvTable.rows) :
              \A j \in 1..Len(csvTable.rows[i]) : IsTrimmed(csvTable.rows[i][j])
        /\ (csvTable.footer # <<>>) <=> (n > 10)
        /\ csvTable.footer # <<>> =>
              Includes(csvTable.footer[1], " " \o ToString(n) \o " ")

\* 15 lines under a header of 3 columns: 3 header cells, 9 data rows and a
\* footer stating 15
C11_Witness ==
    /\ LineCount(csvText) = 15 /\ FirstLine(csvText) = "a,b,c"
    /\ Len(csvTable.header) = 3 /\ Len(csvTable.rows) = 9
    /\ csvTable.footer = <<"Showing first 10 rows of 15 total rows">>

\* C12: a submit with both slots populated issues exactly one POST; requests
\* are issued by no other step (no retry); a failure of any kind ends in the
\* one "Processing failed" report with the flag cleared and the download
\* reference as it was; and every submission eventually ends with the flag
\* cleared.
C12_OnePostNoRetry ==
    /\ [][ /\ (op'.name = "handleSubmit"
                 /\ expenseTypeFile # NoFile /\ transactionsFile # NoFile)
               => /\ posted' = posted + 1
                  /\ Cardinality(inflight') = Cardinality(inflight) + 1
           /\ posted' # posted => op'.name = "handleSubmit"
           /\ Cardinality(inflight') > Cardinality(inflight)
               => op'.name = "handleSubmit"
           /\ op'.name = "submitFailed"
               => /\ toastTitle' = "Processing failed"
                  /\ ~isProcessing'
                  /\ zipFileUrl' = zipFileUrl
                  /\ zipFileName' = zipFileName ]_vars
    /\ (inflight # {}) ~> (inflight = {} /\ ~isProcessing)

\* a second submission that failed while the download of the first one is
\* still offered
C12_Witness ==
    /\ op.name = "submitFailed" /\ posted = 2
    /\ toastTitle = "Processing failed"
    /\ ~isProcessing /\ inflight = {}
    /\ zipFileUrl # NoUrl

====
